---- MODULE Spec2Model ----
(***************************************************************************)
(* A model of grace.py: the command-line entry point, the pipeline driver  *)
(* grace_predict_single_file with load_model, preprocess_input and         *)
(* save_predictions, the weight-key renaming of load_model, the arg-max of *)
(* save_predictions, and the patch tiling and blending behind the          *)
(* sliding_window_inference call.                                          *)
(***************************************************************************)
EXTENDS Integers, Sequences, FiniteSets, TLC

VARIABLES
    \* ---- the pipeline run (Spec) ----
    entry,        \* "cli": run as a script; "direct": grace_predict_single_file called
    argc,         \* len(sys.argv)
    isfile,       \* os.path.isfile(input_path)
    endsNiiGz,    \* input_path.endswith('.nii.gz')
    cuda,         \* torch.cuda.is_available()
    mps,          \* torch.backends.mps.is_available()
    pc,           \* position of the run
    events,       \* what send_progress printed, in order
    msgs,         \* what the script printed itself, in order
    outdir,       \* os.makedirs(output_dir) has created the directory
    device,       \* the torch.device chosen, "none" before
    modelLoaded,  \* load_model returned a model
    steps,        \* the external steps entered, in order
    returned,     \* the external steps that returned normally
    failed,       \* the step that raised, "none" if none did
    calls,        \* how often the model's predictor was driven
    input_img,    \* the grid of the image preprocess_input returns beside the tensor
    image_tensor, \* the grid of the tensor preprocess_input returns
    files,        \* the output files written
    savedNii,     \* what the written NIfTI file holds
    \* ---- the weight-key renaming (SpecKeys) ----
    state_dict,   \* the keys of the loaded weight file
    model_keys,   \* key of the file -> key handed to load_state_dict
    \* ---- the arg-max (SpecArgmax) ----
    predictions,  \* [class index -> [voxel -> score]]
    processed_preds, \* [voxel -> label]
    \* ---- the sliding window (SpecSW) ----
    swS,          \* the volume's size on the axis
    swW,          \* the window size on the axis
    swOv,         \* the overlap, in units of 1/OvDen
    swSeed,       \* selects the predictor
    swPc,         \* position of the inference call
    patches,      \* the patch starts, in the tiler's order
    todo,         \* indices of the patches not yet aggregated
    weighted_sum, \* [class -> [voxel -> accumulated score]]
    weight_total, \* [voxel -> accumulated weight]
    normalized    \* [class -> [voxel -> <<numerator, denominator>>]]

runVars == <<entry, argc, isfile, endsNiiGz, cuda, mps, pc, events, msgs, outdir,
             device, modelLoaded, steps, returned, failed, calls, input_img,
             image_tensor, files, savedNii>>
keyVars == <<state_dict, model_keys>>
argmaxVars == <<predictions, processed_preds>>
swVars == <<swS, swW, swOv, swSeed, swPc, patches, todo, weighted_sum, weight_total,
            normalized>>
vars == <<runVars, keyVars, argmaxVars, swVars>>

----------------------------------------------------------------------------
\* Bounds of the model.
MaxArgc == 4
MaxSpacing == 2
MaxShape == 2
MaxSegs == 3
MaxKeys == 2
MaxClasses == 3
MaxVoxels == 2
MaxScore == 1
MaxS == 5
MaxW == 3
MaxSeed == 1
OvDen == 10

\* Program constants.
PixDim == 1
SwBatchSize == 4

----------------------------------------------------------------------------
\* Small helpers.
Max(a, b) == IF a >= b THEN a ELSE b
Min(a, b) == IF a <= b THEN a ELSE b
Range(s) == {s[i] : i \in 1..Len(s)}

----------------------------------------------------------------------------
\* The pipeline run.

\* The percent each send_progress call site passes.
ProgressOf_SaveMatEarly(site) ==
    CASE site = "device" -> 5
      [] site = "configure" -> 10
      [] site = "load_weights" -> 20
      [] site = "model_loaded" -> 25
      [] site = "load_input" -> 30
      [] site = "input_loaded" -> 35
      [] site = "transforms" -> 40
      [] site = "preprocessed" -> 45
      [] site = "inference_start" -> 50
      [] site = "inference_done" -> 75
      [] site = "postprocess" -> 80
      [] site = "save_nii" -> 85
      [] site = "save_mat" -> 70
      [] site = "files_saved" -> 95
      [] site = "completed" -> 100

ProgressOf(site) ==
    CASE site = "device" -> 5
      [] site = "configure" -> 10
      [] site = "load_weights" -> 20
      [] site = "model_loaded" -> 25
      [] site = "load_input" -> 30
      [] site = "input_loaded" -> 35
      [] site = "transforms" -> 40
      [] site = "preprocessed" -> 45
      [] site = "inference_start" -> 50
      [] site = "inference_done" -> 75
      [] site = "postprocess" -> 80
      [] site = "save_nii" -> 85
      [] site = "save_mat" -> 90
      [] site = "files_saved" -> 95
      [] site = "completed" -> 100

\* send_progress prints one line: the message and the percent.
send_progress(ev, message, site) ==
    Append(ev, [message |-> message, progress |-> ProgressOf(site)])

\* The sites of a sequence of calls, printed one after the other.
RECURSIVE send_all(_, _)
send_all(ev, sites) ==
    IF sites = <<>> THEN ev
    ELSE send_all(send_progress(ev, Head(sites), Head(sites)), Tail(sites))

\* The device of lines 146-148.
SelectDevice_UseMps(cudaAvail, mpsAvail) ==
    IF cudaAvail THEN "cuda" ELSE IF mpsAvail THEN "mps" ELSE "cpu"

SelectDevice(cudaAvail, mpsAvail) ==
    LET first == IF cudaAvail THEN "cuda" ELSE "cpu"
    IN  IF mpsAvail /\ ~cudaAvail THEN "cpu" ELSE first

\* The message of the device event: one per branch of line 147.
DeviceMessage(cudaAvail, mpsAvail) ==
    IF mpsAvail /\ ~cudaAvail THEN "Using MPS backend (CPU)" ELSE "Using device"

\* A volume's voxel grid on one axis: spacing, axis direction, number of voxels.
Grids == [spacing : 1..MaxSpacing, axcodes : {"RAS", "LPS"}, shape : 1..MaxShape]
NoGrid == [spacing |-> 0, axcodes |-> "none", shape |-> 0]

\* Spacingd to pixdim 1.0, then Orientationd to RAS: the grid of the result.
Transformed(g) ==
    [spacing |-> PixDim, axcodes |-> "RAS", shape |-> (g.shape * g.spacing) \div PixDim]

NoNii == [data_grid |-> NoGrid, affine_of |-> NoGrid]

RunIdle ==
    /\ entry = "direct" /\ argc = 2 /\ isfile = TRUE /\ endsNiiGz = TRUE
    /\ cuda = FALSE /\ mps = FALSE /\ pc = "idle" /\ events = <<>> /\ msgs = <<>>
    /\ outdir = FALSE /\ device = "none" /\ modelLoaded = FALSE /\ steps = <<>>
    /\ returned = {} /\ failed = "none" /\ calls = 0 /\ input_img = NoGrid
    /\ image_tensor = NoGrid /\ files = {} /\ savedNii = NoNii

KeysIdle == state_dict = {} /\ model_keys = <<>>
ArgmaxIdle == predictions = <<>> /\ processed_preds = <<>>
SWIdle ==
    /\ swS = 0 /\ swW = 0 /\ swOv = 0 /\ swSeed = 0 /\ swPc = "idle"
    /\ patches = <<>> /\ todo = {} /\ weighted_sum = <<>> /\ weight_total = <<>>
    /\ normalized = <<>>

RunInit ==
    /\ entry \in {"cli", "direct"}
    /\ argc \in IF entry = "cli" THEN 1..MaxArgc ELSE {2}
    /\ isfile \in BOOLEAN
    /\ endsNiiGz \in BOOLEAN
    /\ cuda \in BOOLEAN
    /\ mps \in BOOLEAN
    /\ pc = "start"
    /\ events = <<>> /\ msgs = <<>>
    /\ outdir = FALSE /\ device = "none" /\ modelLoaded = FALSE
    /\ steps = <<>> /\ returned = {} /\ failed = "none" /\ calls = 0
    /\ input_img \in Grids
    /\ image_tensor = NoGrid
    /\ files = {} /\ savedNii = NoNii

Init == RunInit /\ KeysIdle /\ ArgmaxIdle /\ SWIdle

otherVars == <<keyVars, argmaxVars, swVars>>
inputVars == <<entry, argc, isfile, endsNiiGz, cuda, mps>>

\* Lines 174-187: the script's argument checks.
Main ==
    /\ pc = "start" /\ entry = "cli"
    /\ IF argc < 2
         THEN msgs' = Append(msgs, "Path for input file expected!") /\ pc' = "exit"
       ELSE IF argc > 3
         THEN msgs' = Append(msgs, "Too many arguments...!") /\ pc' = "exit"
       ELSE IF ~isfile \/ ~endsNiiGz
         THEN /\ msgs' = Append(msgs, "Error: Input file does not exist or is not a .nii.gz file.")
              /\ pc' = "exit"
       ELSE msgs' = msgs /\ pc' = "makedirs"
    /\ UNCHANGED <<inputVars, events, outdir, device, modelLoaded, steps, returned,
                   failed, calls, input_img, image_tensor, files, savedNii, otherVars>>

\* A caller invokes grace_predict_single_file itself: line 127 has no check.
DirectCall ==
    /\ pc = "start" /\ entry = "direct"
    /\ pc' = "makedirs"
    /\ UNCHANGED <<inputVars, events, msgs, outdir, device, modelLoaded, steps,
                   returned, failed, calls, input_img, image_tensor, files, savedNii,
                   otherVars>>

\* Line 142: os.makedirs(output_dir, exist_ok=True), which may raise OSError.
MakeDirs ==
    /\ pc = "makedirs"
    /\ \E ok \in BOOLEAN :
         IF ok THEN outdir' = TRUE /\ pc' = "device" /\ failed' = failed
         ELSE outdir' = outdir /\ pc' = "aborted" /\ failed' = "makedirs"
    /\ UNCHANGED <<inputVars, events, msgs, device, modelLoaded, steps, returned,
                   calls, input_img, image_tensor, files, savedNii, otherVars>>

\* Lines 145-151.
DeviceSelect ==
    /\ pc = "device"
    /\ device' = SelectDevice(cuda, mps)
    /\ events' = Append(events, [message |-> DeviceMessage(cuda, mps),
                                 progress |-> ProgressOf("device")])
    /\ steps' = Append(steps, "device")
    /\ returned' = returned \cup {"device"}
    /\ pc' = "load_model"
    /\ UNCHANGED <<inputVars, msgs, outdir, modelLoaded, failed, calls, input_img,
                   image_tensor, files, savedNii, otherVars>>

\* Lines 34-63: load_model. Building the network and moving it to the device may
\* raise, and so may torch.load and load_state_dict.
LoadModel ==
    /\ pc = "load_model"
    /\ steps' = Append(steps, "load_model")
    /\ \E outcome \in {"ok", "build_raises", "weights_raise"} :
         CASE outcome = "build_raises" ->
                /\ events' = send_all(events, <<"configure">>)
                /\ pc' = "aborted" /\ failed' = "load_model"
                /\ UNCHANGED <<modelLoaded, returned>>
           [] outcome = "weights_raise" ->
                /\ events' = send_all(events, <<"configure", "load_weights">>)
                /\ pc' = "aborted" /\ failed' = "load_model"
                /\ UNCHANGED <<modelLoaded, returned>>
           [] outcome = "ok" ->
                /\ events' = send_all(events, <<"configure", "load_weights", "model_loaded">>)
                /\ modelLoaded' = TRUE
                /\ returned' = returned \cup {"load_model"}
                /\ pc' = "preprocess" /\ failed' = failed
    /\ UNCHANGED <<inputVars, msgs, outdir, device, calls, input_img, image_tensor,
                   files, savedNii, otherVars>>

\* Lines 73-102: preprocess_input. nib.load raises on a path that is no file and
\* may raise on a file it cannot read; the transforms may raise. It returns the
\* transformed tensor and the image as loaded.
PreprocessInput ==
    /\ pc = "preprocess"
    /\ steps' = Append(steps, "preprocess")
    /\ \E outcome \in {"ok", "load_raises", "transform_raises"} :
         /\ ~isfile => outcome = "load_raises"
         /\ CASE outcome = "load_raises" ->
                  /\ events' = send_all(events, <<"load_input">>)
                  /\ pc' = "aborted" /\ failed' = "preprocess"
                  /\ UNCHANGED <<image_tensor, returned>>
             [] outcome = "transform_raises" ->
                  /\ events' = send_all(events, <<"load_input", "input_loaded", "transforms">>)
                  /\ pc' = "aborted" /\ failed' = "preprocess"
                  /\ UNCHANGED <<image_tensor, returned>>
             [] outcome = "ok" ->
                  /\ events' = send_all(events, <<"load_input", "input_loaded",
                                                   "transforms", "preprocessed">>)
                  /\ image_tensor' = Transformed(input_img)
                  /\ returned' = returned \cup {"preprocess"}
                  /\ pc' = "inference" /\ failed' = failed
    /\ UNCHANGED <<inputVars, msgs, outdir, device, modelLoaded, calls, input_img,
                   files, savedNii, otherVars>>

\* Lines 160-165: the sliding-window call; a raise inside it is not caught.
Inference ==
    /\ pc = "inference"
    /\ steps' = Append(steps, "inference")
    /\ calls' = calls + 1
    /\ \E ok \in BOOLEAN :
         IF ok
         THEN /\ events' = send_all(events, <<"inference_start", "inference_done">>)
              /\ returned' = returned \cup {"inference"}
              /\ pc' = "save_nii" /\ failed' = failed
         ELSE /\ events' = send_all(events, <<"inference_start">>)
              /\ pc' = "aborted" /\ failed' = "inference"
              /\ UNCHANGED returned
    /\ UNCHANGED <<inputVars, msgs, outdir, device, modelLoaded, input_img,
                   image_tensor, files, savedNii, otherVars>>

\* Lines 112-119: the labels have the grid of the predictions, which is the
\* grid of image_tensor; the affine and header are those of input_img.
SaveNifti_FilesSavedEarly ==
    /\ pc = "save_nii"
    /\ steps' = Append(steps, "save_nii")
    /\ \E ok \in BOOLEAN :
         IF ok
         THEN /\ events' = send_all(events, <<"postprocess", "save_nii", "save_mat", "files_saved">>)
              /\ files' = files \cup {"nii"}
              /\ savedNii' = [data_grid |-> image_tensor, affine_of |-> input_img]
              /\ returned' = returned \cup {"save_nii"}
              /\ pc' = "save_mat" /\ failed' = failed
         ELSE /\ events' = send_all(events, <<"postprocess", "save_nii">>)
              /\ pc' = "aborted" /\ failed' = "save_nii"
              /\ UNCHANGED <<files, savedNii, returned>>
    /\ UNCHANGED <<inputVars, msgs, outdir, device, modelLoaded, calls, input_img,
                   image_tensor, otherVars>>

SaveNifti ==
    /\ pc = "save_nii"
    /\ steps' = Append(steps, "save_nii")
    /\ \E ok \in BOOLEAN :
         IF ok
         THEN /\ events' = send_all(events, <<"postprocess", "save_nii", "save_mat">>)
              /\ files' = files \cup {"nii"}
              /\ savedNii' = [data_grid |-> image_tensor, affine_of |-> input_img]
              /\ returned' = returned \cup {"save_nii"}
              /\ pc' = "save_mat" /\ failed' = failed
         ELSE /\ events' = send_all(events, <<"postprocess", "save_nii">>)
              /\ pc' = "aborted" /\ failed' = "save_nii"
              /\ UNCHANGED <<files, savedNii, returned>>
    /\ UNCHANGED <<inputVars, msgs, outdir, device, modelLoaded, calls, input_img,
                   image_tensor, otherVars>>

\* Lines 123-125 and 170: savemat, then the last two events.
SaveMat ==
    /\ pc = "save_mat"
    /\ steps' = Append(steps, "save_mat")
    /\ \E ok \in BOOLEAN :
         IF ok
         THEN /\ events' = send_all(events, <<"files_saved", "completed">>)
              /\ files' = files \cup {"mat"}
              /\ returned' = returned \cup {"save_mat"}
              /\ pc' = "returned" /\ failed' = failed
         ELSE /\ events' = events
              /\ pc' = "aborted" /\ failed' = "save_mat"
              /\ UNCHANGED <<files, returned>>
    /\ UNCHANGED <<inputVars, msgs, outdir, device, modelLoaded, calls, input_img,
                   image_tensor, savedNii, otherVars>>

\* Line 200 for the script; a direct caller just gets control back.
Finish ==
    /\ pc = "returned"
    /\ msgs' = IF entry = "cli" THEN Append(msgs, "Output files generated...!") ELSE msgs
    /\ pc' = "done"
    /\ UNCHANGED <<inputVars, events, outdir, device, modelLoaded, steps, returned,
                   failed, calls, input_img, image_tensor, files, savedNii, otherVars>>

Next ==
    \/ Main
    \/ DirectCall
    \/ MakeDirs
    \/ DeviceSelect
    \/ LoadModel
    \/ PreprocessInput
    \/ Inference
    \/ SaveNifti
    \/ SaveMat
    \/ Finish

Spec == Init /\ [][Next]_vars

----------------------------------------------------------------------------
\* Properties of the pipeline run.

Percents == {events[i].progress : i \in 1..Len(events)}
Order == <<"device", "load_model", "preprocess", "inference", "save_nii", "save_mat">>
BothFiles == {"nii", "mat"}

\* C1: when a run aborts at any step no output file exists, and a run that
\* completes has written both: the written files are never exactly one of the two
\* once the run has ended.
C1_NoPartialOutput ==
    /\ pc = "aborted" => files = {}
    /\ pc \in {"returned", "done"} => files = BothFiles

\* C2: on both ways of invoking the run, a path that is no file or does not end
\* in .nii.gz is rejected before anything else happens: no output directory, no
\* device, no model, no progress event.
C2_ValidationFirst ==
    (pc # "start" /\ ~(isfile /\ endsNiiGz)) =>
        /\ ~outdir
        /\ device = "none"
        /\ ~modelLoaded
        /\ events = <<>>

\* C3: the NIfTI file of a successful run carries the affine and header of the
\* volume whose grid the label array has (the volume after resampling and
\* reorientation).
C3_AffineOfLabelGrid ==
    pc = "done" => savedNii.affine_of = savedNii.data_grid

\* C4: in every run, complete or aborted, the percents of the progress events
\* are integers in 0..100 and never decrease.
C4_ProgressMonotone ==
    /\ \A i \in 1..Len(events) : events[i].progress \in 0..100
    /\ \A i \in 1..Len(events) : \A j \in i..Len(events) :
         events[i].progress <= events[j].progress

\* A complete run on the MPS fallback branch has emitted all fifteen events.
C4_Witness ==
    /\ pc = "done" /\ mps /\ ~cuda
    /\ Len(events) = 15
    /\ events[1].message = "Using MPS backend (CPU)"

\* C8: the device chosen is CUDA exactly when CUDA is available and the CPU
\* otherwise, never MPS, and device selection never ends the run.
C8_DeviceChoice ==
    /\ device \in {"none", "cuda", "cpu"}
    /\ device # "none" => (device = "cuda" <=> cuda)
    /\ pc \in {"load_model", "preprocess", "inference", "save_nii", "save_mat",
               "returned", "done"} => device # "none"
    /\ failed # "device"

\* Only MPS is present and the run went through on the CPU.
C8_Witness == mps /\ ~cuda /\ device = "cpu" /\ pc = "done"

\* C10: the steps run in the fixed order; event 75 only after the inference call
\* returned; events 95 and 100 and the script's closing message only after both
\* files were written; a failed inference call is not retried and ends the run
\* with none of these emitted.
C10_StepOrder ==
    /\ Len(steps) <= Len(Order)
    /\ \A i \in 1..Len(steps) : steps[i] = Order[i]
    /\ 75 \in Percents => "inference" \in returned
    /\ (95 \in Percents \/ 100 \in Percents \/ "Output files generated...!" \in Range(msgs))
         => /\ files = BothFiles
            /\ {"save_nii", "save_mat"} \subseteq returned
    /\ calls <= 1
    /\ failed = "inference" =>
         /\ pc = "aborted"
         /\ Percents \cap {75, 95, 100} = {}
         /\ "Output files generated...!" \notin Range(msgs)
         /\ files = {}

\* A complete run of the script: all six steps, then the closing message.
C10_Witness ==
    /\ pc = "done" /\ entry = "cli"
    /\ steps = Order
    /\ "Output files generated...!" \in Range(msgs)
    /\ 100 \in Percents

----------------------------------------------------------------------------
\* The weight-key renaming of load_model (line 58).

\* "module." as the sequence of its characters.
ModulePrefix == <<"m", "o", "d", "u", "l", "e", ".">>

StartsWith(s, p) == Len(s) >= Len(p) /\ SubSeq(s, 1, Len(p)) = p
Drop(s, n) == SubSeq(s, n + 1, Len(s))

\* Python's str.replace(old, new) for a non-empty old: every occurrence, found
\* left to right without overlap, is replaced.
RECURSIVE Replace(_, _, _)
Replace(s, old, new) ==
    IF s = <<>> THEN <<>>
    ELSE IF StartsWith(s, old) THEN new \o Replace(Drop(s, Len(old)), old, new)
    ELSE <<Head(s)>> \o Replace(Tail(s), old, new)

\* The key load_state_dict receives for key k of the file.
RenameKey(k) == Replace(k, ModulePrefix, <<>>)

\* The pieces the keys of the weight files are built from, and the keys.
Segments == {ModulePrefix, <<"m">>, <<"o", "d", "u", "l", "e", ".">>, <<"w">>}

RECURSIVE KeysOfSegs(_)
KeysOfSegs(n) ==
    IF n = 0 THEN {<<>>}
    ELSE LET shorter == KeysOfSegs(n - 1)
         IN  shorter \cup {k \o g : k \in shorter, g \in Segments}

WeightKeys == KeysOfSegs(MaxSegs) \ {<<>>}

\* The weight files: between one and n distinct keys.
RECURSIVE KeySets(_)
KeySets(n) ==
    IF n = 1 THEN {{k} : k \in WeightKeys}
    ELSE LET smaller == KeySets(n - 1)
         IN  smaller \cup {d \cup {k} : d \in smaller, k \in WeightKeys}

KeysInit ==
    /\ state_dict \in KeySets(MaxKeys)
    /\ model_keys = <<>>

InitKeys == RunIdle /\ KeysInit /\ ArgmaxIdle /\ SWIdle

\* Line 58: the dict comprehension over the loaded mapping.
RenameStateDict ==
    /\ model_keys = <<>>
    /\ model_keys' = [k \in state_dict |-> RenameKey(k)]
    /\ UNCHANGED <<state_dict, runVars, argmaxVars, swVars>>

NextKeys == RenameStateDict

SpecKeys == InitKeys /\ [][NextKeys]_vars

\* C9: every key is handed over with a leading "module." removed and otherwise
\* unchanged, an occurrence elsewhere in the key stays, and two keys of the file
\* get the same model key only when one is the other with that prefix in front.
C9_PrefixStripped ==
    model_keys # <<>> =>
        /\ \A k \in state_dict :
             model_keys[k] = IF StartsWith(k, ModulePrefix)
                             THEN Drop(k, Len(ModulePrefix)) ELSE k
        /\ \A k1, k2 \in state_dict :
             (k1 # k2 /\ model_keys[k1] = model_keys[k2]) =>
                 (k1 = ModulePrefix \o k2 \/ k2 = ModulePrefix \o k1)

----------------------------------------------------------------------------
\* The arg-max of save_predictions (line 113).

Classes == 0..(MaxClasses - 1)
Voxels == 1..MaxVoxels

\* The last index of a maximal entry.
IndexOfMax_Last(row) ==
    CHOOSE c \in DOMAIN row :
        /\ \A d \in DOMAIN row : row[d] <= row[c]
        /\ \A d \in DOMAIN row : d > c => row[d] < row[c]

\* torch.argmax along one dimension: the first index of a maximal entry.
IndexOfMax(row) ==
    CHOOSE c \in DOMAIN row :
        /\ \A d \in DOMAIN row : row[d] <= row[c]
        /\ \A d \in DOMAIN row : d < c => row[d] < row[c]

\* torch.argmax(predictions, dim=1) of a [1, classes, voxels] tensor, squeezed:
\* the reduction runs over the class index.
ArgMaxDim1(t) ==
    [v \in Voxels |-> IndexOfMax([c \in DOMAIN t |-> t[c][v]])]

ArgmaxInit ==
    /\ predictions \in [Classes -> [Voxels -> 0..MaxScore]]
    /\ processed_preds = <<>>

InitArgmax == RunIdle /\ KeysIdle /\ ArgmaxInit /\ SWIdle

PostProcess ==
    /\ processed_preds = <<>>
    /\ processed_preds' = ArgMaxDim1(predictions)
    /\ UNCHANGED <<predictions, runVars, keyVars, swVars>>

NextArgmax == PostProcess

SpecArgmax == InitArgmax /\ [][NextArgmax]_vars

\* C7: each voxel's label is a class of maximal score at that voxel, and the
\* lowest such class when several tie; the label is thereby determined by the
\* scores alone.
C7_ArgmaxLowestOnTie ==
    processed_preds # <<>> =>
        \A v \in Voxels :
            LET l == processed_preds[v]
            IN  /\ l \in Classes
                /\ \A c \in Classes : predictions[c][v] <= predictions[l][v]
                /\ \A c \in Classes : c < l => predictions[c][v] < predictions[l][v]

\* Two classes tie for the maximum at a voxel, neither is class 0, and the label
\* is the lower of the two.
C7_Witness ==
    /\ processed_preds # <<>>
    /\ \E v \in Voxels : \E c1, c2 \in Classes :
         /\ 0 < c1 /\ c1 < c2
         /\ predictions[c1][v] = predictions[c2][v]
         /\ predictions[0][v] < predictions[c1][v]
         /\ processed_preds[v] = c1

----------------------------------------------------------------------------
\* The sliding-window inference behind the call of lines 162-164, on one axis:
\* the patch tiler, the blend aggregator with uniform weights, normalize().

\* round(n / d) for n >= 0, d > 0, halves to the even neighbour.
Round(n, d) ==
    LET q == n \div d
        r == n % d
    IN  IF 2 * r < d THEN q
        ELSE IF 2 * r > d THEN q + 1
        ELSE IF q % 2 = 0 THEN q ELSE q + 1

\* The offset of consecutive patches: round(W * (1 - o)), at least 1.
Stride(W, ov) == Max(1, Round(W * (OvDen - ov), OvDen))

\* The extent of a patch on the axis.
PatchLen(S, W) == Min(S, W)

\* A tiler that drops the patch that would have to be pulled back.
NumPatches_NoLast(S, W, stride) ==
    IF S <= W THEN 1 ELSE ((S - W) \div stride) + 1

\* One patch when the volume fits the window, else enough to reach the end.
NumPatches(S, W, stride) ==
    IF S <= W THEN 1 ELSE ((S - W + stride - 1) \div stride) + 1

\* The patch starts in order; the last is pulled back to end at the boundary.
PatchStarts(S, W, stride) ==
    [i \in 1..NumPatches(S, W, stride) |-> IF S <= W THEN 0 ELSE Min((i - 1) * stride, S - W)]

\* The voxels patch p covers.
PatchVoxels(starts, len, p) == starts[p]..(starts[p] + len - 1)

\* The opaque model: the score of class c at offset i of the patch starting at
\* start. Seed 0 scores a voxel the same in every patch, the others do not.
Predict(seed, c, start, i) == (seed * (start + 1) + c + start + i) % (MaxScore + 1)

\* Uniform importance: weight 1 for every voxel of a patch.
ImportanceWeight(i) == 1

\* Overwrites the accumulated score.
AddScore_Overwrite(acc, weight, score) == weight * score

\* Adds one weighted contribution to an accumulated score.
AddScore(acc, weight, score) == acc + weight * score

\* One (patch, scores) pair added to both buffers.
AccumulatePatch(ws, wt, starts, len, seed, p) ==
    [sum |-> [c \in Classes |-> [v \in DOMAIN wt |->
                 IF v \in PatchVoxels(starts, len, p)
                 THEN AddScore(ws[c][v], ImportanceWeight(v - starts[p]),
                               Predict(seed, c, starts[p], v - starts[p]))
                 ELSE ws[c][v]]],
     total |-> [v \in DOMAIN wt |->
                 IF v \in PatchVoxels(starts, len, p)
                 THEN wt[v] + ImportanceWeight(v - starts[p])
                 ELSE wt[v]]]

\* The pairs of one batch added one after the other.
RECURSIVE AccumulateBatch(_, _, _, _, _, _)
AccumulateBatch(ws, wt, starts, len, seed, batch) ==
    IF batch = {} THEN [sum |-> ws, total |-> wt]
    ELSE LET p == CHOOSE q \in batch : TRUE
             one == AccumulatePatch(ws, wt, starts, len, seed, p)
         IN  AccumulateBatch(one.sum, one.total, starts, len, seed, batch \ {p})

RECURSIVE GCD(_, _)
GCD(a, b) == IF b = 0 THEN a ELSE GCD(b, a % b)

\* The exact quotient n / d in lowest terms; a zero divisor yields no number.
Quotient(n, d) ==
    IF d = 0 THEN <<n, 0>>
    ELSE LET g == GCD(n, d) IN <<n \div g, d \div g>>

SWInit ==
    /\ swS \in 1..MaxS
    /\ swW \in 1..MaxW
    /\ swOv \in 0..(OvDen - 1)
    /\ swSeed \in 0..MaxSeed
    /\ swPc = "start"
    /\ patches = <<>> /\ todo = {}
    /\ weighted_sum = <<>> /\ weight_total = <<>> /\ normalized = <<>>

InitSW == RunIdle /\ KeysIdle /\ ArgmaxIdle /\ SWInit

swInputs == <<swS, swW, swOv, swSeed>>

\* The patch list is computed and both buffers start at zero.
Tile ==
    /\ swPc = "start"
    /\ patches' = PatchStarts(swS, swW, Stride(swW, swOv))
    /\ todo' = DOMAIN patches'
    /\ weighted_sum' = [c \in Classes |-> [v \in 0..(swS - 1) |-> 0]]
    /\ weight_total' = [v \in 0..(swS - 1) |-> 0]
    /\ swPc' = "aggregating"
    /\ UNCHANGED <<swInputs, normalized, runVars, keyVars, argmaxVars>>

\* One batch of at most SwBatchSize patches goes through the model and into the
\* aggregator; which patches form the next batch is left open.
ProcessBatch ==
    /\ swPc = "aggregating" /\ todo # {}
    /\ \E batch \in SUBSET todo :
         /\ batch # {} /\ Cardinality(batch) <= SwBatchSize
         /\ LET acc == AccumulateBatch(weighted_sum, weight_total, patches,
                                       PatchLen(swS, swW), swSeed, batch)
            IN  weighted_sum' = acc.sum /\ weight_total' = acc.total
         /\ todo' = todo \ batch
    /\ UNCHANGED <<swInputs, swPc, patches, normalized, runVars, keyVars, argmaxVars>>

\* predict raises for a batch: the call ends without a result.
PredictRaises ==
    /\ swPc = "aggregating" /\ todo # {}
    /\ swPc' = "failed"
    /\ UNCHANGED <<swInputs, patches, todo, weighted_sum, weight_total, normalized,
                   runVars, keyVars, argmaxVars>>

\* normalize(): every accumulated score divided by the voxel's accumulated weight.
Normalize ==
    /\ swPc = "aggregating" /\ todo = {}
    /\ normalized' = [c \in Classes |-> [v \in DOMAIN weight_total |->
                         Quotient(weighted_sum[c][v], weight_total[v])]]
    /\ swPc' = "done"
    /\ UNCHANGED <<swInputs, patches, todo, weighted_sum, weight_total, runVars,
                   keyVars, argmaxVars>>

NextSW ==
    \/ Tile
    \/ ProcessBatch
    \/ PredictRaises
    \/ Normalize

SpecSW == InitSW /\ [][NextSW]_vars

\* The patches that cover voxel v.
Covering(v) == {p \in DOMAIN patches : v \in PatchVoxels(patches, PatchLen(swS, swW), p)}

RECURSIVE SumScores(_, _, _)
SumScores(ps, c, v) ==
    IF ps = {} THEN 0
    ELSE LET p == CHOOSE q \in ps : TRUE
         IN  Predict(swSeed, c, patches[p], v - patches[p]) + SumScores(ps \ {p}, c, v)

\* C5: every patch lies inside the volume, a volume no larger than the window
\* gets exactly one patch, the patches together cover every index of the axis,
\* and once all patches are aggregated every voxel's accumulated weight is
\* positive.
C5_Coverage ==
    swPc \in {"aggregating", "failed", "done"} =>
        /\ \A p \in DOMAIN patches :
             /\ 0 <= patches[p]
             /\ patches[p] + PatchLen(swS, swW) <= swS
        /\ swS <= swW => Len(patches) = 1
        /\ \A v \in 0..(swS - 1) : Covering(v) # {}
        /\ (todo = {} /\ swPc # "failed") => \A v \in 0..(swS - 1) : weight_total[v] > 0

\* Several patches, the last one pulled back from a multiple of the stride, and
\* all of them aggregated.
C5_Witness ==
    /\ swPc = "done"
    /\ swS > swW
    /\ Len(patches) >= 3
    /\ (swS - swW) % Stride(swW, swOv) # 0
    /\ patches[Len(patches)] = swS - swW

\* C6: after normalize() each voxel's score for a class is the arithmetic mean
\* of that class's scores over exactly the patches covering the voxel, whatever
\* the order the patches were aggregated in; with one covering patch it is that
\* patch's value.
C6_MeanOfCovering ==
    swPc = "done" =>
        \A c \in Classes : \A v \in 0..(swS - 1) :
            LET cov == Covering(v)
                q == normalized[c][v]
            IN  /\ q[2] > 0
                /\ q[1] * Cardinality(cov) = SumScores(cov, c, v) * q[2]
                /\ Cardinality(cov) = 1 => q = <<SumScores(cov, c, v), 1>>

\* A voxel covered by two patches that score it differently, beside a voxel
\* covered by one patch only.
C6_Witness ==
    /\ swPc = "done"
    /\ \E v \in 0..(swS - 1) : \E c \in Classes :
         /\ Cardinality(Covering(v)) = 2
         /\ SumScores(Covering(v), c, v) = 1
         /\ normalized[c][v] = <<1, 2>>
    /\ \E v \in 0..(swS - 1) : \E c \in Classes :
         /\ Cardinality(Covering(v)) = 1
         /\ normalized[c][v] = <<1, 1>>

====
